---- MODULE Spec2Model ----
(***************************************************************************)
(* Admin dashboard of the voucher-retail platform: the terminal and agent  *)
(* data-access functions, the retailer-detail view, the dashboard load     *)
(* cycle and the dashboard's date grouping, as state machines over the     *)
(* hosted backend's tables.                                                *)
(***************************************************************************)
EXTENDS Integers, Sequences, FiniteSets, TLC

\* ------------------------------------------------------------------ bounds
\* Terminal ids the backend can hand out (ids are never reused).
MaxTerminals == 1
\* Data-access calls that can be in flight at once.
MaxCallers == 2
\* Longest terminal name typed into the form.
MaxNameLen == 1
\* User ids the auth system can hand out.
MaxAgents == 3
\* Sales of the collection the dashboard groups by date.
MaxSales == 3
\* Changes of the route's id under the mounted retailer-detail view.
MaxNavs == 1

\* ----------------------------------------------------------------- options
\* A nullable value is a set with at most one element: {} is null.
None == {}
Some(x) == {x}
The(o) == CHOOSE x \in o : TRUE

\* ---------------------------------------------------------- backend domain
Retailers == {"r1", "r2"}
Statuses == {"active", "inactive"}
TerminalIds == 1..MaxTerminals
Callers == 1..MaxCallers
\* Error objects a backend request can come back with.
BackendErrors == {"e1"}
\* The error .single() reports when the request matched no row.
NoRowsError == "no_rows"
\* Exceptions an awaited backend request can reject with.
ThrownErrors == {"x1"}
\* How one backend request ends: served, refused with an error, or rejected.
Outcomes == {"ok"} \cup BackendErrors \cup ThrownErrors

SeqsUpTo(S, n) == UNION {[1..k -> S] : k \in 0..n}
Names == SeqsUpTo({" ", "a"}, MaxNameLen)

\* Response of the query client: { data, error }, or a rejected await.
RespOk(d) == [data |-> Some(d), error |-> None, thrown |-> None]
RespErr(e) == [data |-> None, error |-> Some(e), thrown |-> None]
RespThrow(x) == [data |-> None, error |-> None, thrown |-> Some(x)]

VARIABLES
    dbTerminals,    \* backend table "terminals": a set of rows
    nextId,         \* next terminal id the backend assigns
    calls,          \* data-access calls in flight, one slot per caller
    hist            \* per terminal: statuses left by the latest run of
                    \* undisturbed successful toggles (at most three kept)

termVars == <<dbTerminals, nextId, calls, hist>>

\* ------------------------------------------------------- table "terminals"
TerminalRow(t, r, n, s) ==
    [id |-> t, retailer_id |-> r, name |-> n, status |-> s, last_active |-> None]

HasRow(t) == \E row \in dbTerminals : row.id = t
RowOf(t) == CHOOSE row \in dbTerminals : row.id = t

\* Rows of a set as a sequence, by ascending id.
RECURSIVE RowsById(_)
RowsById(rows) ==
    IF rows = {} THEN <<>>
    ELSE LET first == CHOOSE row \in rows : \A other \in rows : row.id <= other.id
         IN  <<first>> \o RowsById(rows \ {first})

\* .from("terminals").select("status").eq("id", t).single()
DbSelectStatusSingle(t, o) ==
    IF o \in ThrownErrors THEN RespThrow(o)
    ELSE IF o \in BackendErrors THEN RespErr(o)
    ELSE IF ~HasRow(t) THEN RespErr(NoRowsError)
    ELSE RespOk([status |-> RowOf(t).status])

\* .update({status}).eq("id", t).select("id").single()
DbUpdateStatusSingle(t, s, o) ==
    IF o \in ThrownErrors THEN RespThrow(o)
    ELSE IF o \in BackendErrors THEN RespErr(o)
    ELSE IF ~HasRow(t) THEN RespErr(NoRowsError)
    ELSE RespOk([id |-> t])

\* .insert({retailer_id, name, status: "active"}).select("id").single()
DbInsertSingle(o) ==
    IF o \in ThrownErrors THEN RespThrow(o)
    ELSE IF o \in BackendErrors THEN RespErr(o)
    ELSE RespOk([id |-> nextId])

\* .delete().eq("id", t).select("id").single()
DbDeleteSingle(t, o) ==
    IF o \in ThrownErrors THEN RespThrow(o)
    ELSE IF o \in BackendErrors THEN RespErr(o)
    ELSE IF ~HasRow(t) THEN RespErr(NoRowsError)
    ELSE RespOk([id |-> t])

\* .select("id, name, last_active, status").eq("retailer_id", r)
DbSelectTerminals(r, o) ==
    IF o \in ThrownErrors THEN RespThrow(o)
    ELSE IF o \in BackendErrors THEN RespErr(o)
    ELSE RespOk(RowsById({row \in dbTerminals : row.retailer_id = r}))

Served(resp) == resp.error = None /\ resp.thrown = None

\* ------------------------------------------------------- data-access calls
NoResult == [data |-> None, error |-> None]

IdleCall ==
    [fn |-> "none", tid |-> 0, rid |-> "none", name |-> <<>>, pc |-> "idle",
     cur |-> "none", dirty |-> FALSE, ops |-> <<>>,
     result |-> NoResult, thrown |-> None]

\* One backend request as the call's log keeps it: what was asked, how it ended.
Op(kind, resp) == [op |-> kind, error |-> resp.error, thrown |-> resp.thrown]

\* A finished call keeps what it was called on, its log and how it ended,
\* and a toggle, as history, the status it read and whether another write
\* came between its read and its write; its other locals are gone with its
\* frame.
Ended(call) == [call EXCEPT !.rid = "none", !.name = <<>>]
Returned(call, res) == [Ended(call) EXCEPT !.pc = "done", !.result = res]
Rejected(call, x) == [Ended(call) EXCEPT !.pc = "rejected", !.thrown = x]

\* The terminal shape fetchTerminals maps each row to.
MapTerminals(rows) ==
    [i \in 1..Len(rows) |->
        [id |-> rows[i].id, name |-> rows[i].name,
         last_active |-> rows[i].last_active, status |-> rows[i].status,
         auth_user_id |-> "", email |-> ""]]

\* fetchTerminals, after its query
FetchTerminalsAfterQuery(call, resp) ==
    LET logged == [call EXCEPT !.ops = Append(@, Op("select", resp))]
    IN  IF resp.thrown # None THEN Rejected(logged, resp.thrown)
        ELSE IF resp.error # None
             THEN Returned(logged, [data |-> None, error |-> resp.error])
        ELSE Returned(logged, [data |-> Some(MapTerminals(The(resp.data))),
                               error |-> None])

\* createTerminal, after its insert
CreateTerminalAfterInsert(call, resp) ==
    LET logged == [call EXCEPT !.ops = Append(@, Op("insert", resp))]
    IN  IF resp.thrown # None THEN Rejected(logged, resp.thrown)
        ELSE IF resp.error # None
             THEN Returned(logged, [data |-> None, error |-> resp.error])
        ELSE Returned(logged, [data |-> resp.data, error |-> None])

\* A toggle that only ever deactivates.
NewStatusStuck(cur) == "inactive"

\* toggleTerminalStatus: the status to write, from the status read
NewStatus(cur) == IF cur = "active" THEN "inactive" ELSE "active"

\* A toggle that goes on to the write after a failed read.
ToggleAfterReadNoReturn(call, resp) ==
    LET logged == [call EXCEPT !.ops = Append(@, Op("select", resp))]
    IN  IF resp.thrown # None THEN Rejected(logged, resp.thrown)
        ELSE IF resp.error # None
             THEN [logged EXCEPT !.pc = "write", !.cur = "inactive"]
        ELSE [logged EXCEPT !.pc = "write", !.cur = The(resp.data).status]

\* toggleTerminalStatus, after the read of the current status
ToggleAfterRead(call, resp) ==
    LET logged == [call EXCEPT !.ops = Append(@, Op("select", resp))]
    IN  IF resp.thrown # None THEN Rejected(logged, resp.thrown)
        ELSE IF resp.error # None
             THEN Returned(logged, [data |-> None, error |-> resp.error])
        ELSE [logged EXCEPT !.pc = "write", !.cur = The(resp.data).status]

\* toggleTerminalStatus, after the write of the new status
ToggleAfterWrite(call, resp) ==
    LET logged == [call EXCEPT !.ops = Append(@, Op("update", resp))]
    IN  IF resp.thrown # None THEN Rejected(logged, resp.thrown)
        ELSE IF resp.error # None
             THEN Returned(logged, [data |-> None, error |-> resp.error])
        ELSE Returned(logged, [data |-> resp.data, error |-> None])

\* deleteTerminal, after its delete
DeleteTerminalAfterDelete(call, resp) ==
    LET logged == [call EXCEPT !.ops = Append(@, Op("delete", resp))]
    IN  IF resp.thrown # None THEN Rejected(logged, resp.thrown)
        ELSE IF resp.error # None
             THEN Returned(logged, [data |-> None, error |-> resp.error])
        ELSE Returned(logged, [data |-> resp.data, error |-> None])

\* A write to terminal t disturbs every other toggle of t that has read and
\* not yet written.
Disturb(c, t, written) ==
    [x \in Callers |->
        IF x # c /\ written /\ calls[x].fn = "toggle" /\ calls[x].tid = t
              /\ calls[x].pc = "write"
        THEN [calls[x] EXCEPT !.dirty = TRUE]
        ELSE calls[x]]

\* ---- a backend response and what the call does with it
\* What the response with outcome o to the pending request of a call leaves:
\* the call, the table, the id counter and the terminal written (0: none).
RespondFetchTerminals(call, o) ==
    [call |-> FetchTerminalsAfterQuery(call, DbSelectTerminals(call.rid, o)),
     db |-> dbTerminals, nextId |-> nextId, wrote |-> 0]

\* A create that stores the new terminal as inactive.
RespondCreateTerminalInactive(call, o) ==
    LET resp == DbInsertSingle(o)
    IN  [call |-> CreateTerminalAfterInsert(call, resp),
         db |-> IF Served(resp)
                THEN dbTerminals \cup
                     {TerminalRow(nextId, call.rid, call.name, "inactive")}
                ELSE dbTerminals,
         nextId |-> IF Served(resp) THEN nextId + 1 ELSE nextId,
         wrote |-> IF Served(resp) THEN nextId ELSE 0]

RespondCreateTerminal(call, o) ==
    LET resp == DbInsertSingle(o)
    IN  [call |-> CreateTerminalAfterInsert(call, resp),
         db |-> IF Served(resp)
                THEN dbTerminals \cup
                     {TerminalRow(nextId, call.rid, call.name, "active")}
                ELSE dbTerminals,
         nextId |-> IF Served(resp) THEN nextId + 1 ELSE nextId,
         wrote |-> IF Served(resp) THEN nextId ELSE 0]

RespondToggleRead(call, o) ==
    [call |-> ToggleAfterRead(call, DbSelectStatusSingle(call.tid, o)),
     db |-> dbTerminals, nextId |-> nextId, wrote |-> 0]

\* A toggle whose write flips the status stored at the time of the write.
RespondToggleWriteAtomic(call, o) ==
    LET s == NewStatus(IF HasRow(call.tid) THEN RowOf(call.tid).status ELSE call.cur)
        resp == DbUpdateStatusSingle(call.tid, s, o)
    IN  [call |-> ToggleAfterWrite(call, resp),
         db |-> IF Served(resp)
                THEN (dbTerminals \ {RowOf(call.tid)}) \cup
                     {[RowOf(call.tid) EXCEPT !.status = s]}
                ELSE dbTerminals,
         nextId |-> nextId,
         wrote |-> IF Served(resp) THEN call.tid ELSE 0]

RespondToggleWrite(call, o) ==
    LET s == NewStatus(call.cur)
        resp == DbUpdateStatusSingle(call.tid, s, o)
    IN  [call |-> ToggleAfterWrite(call, resp),
         db |-> IF Served(resp)
                THEN (dbTerminals \ {RowOf(call.tid)}) \cup
                     {[RowOf(call.tid) EXCEPT !.status = s]}
                ELSE dbTerminals,
         nextId |-> nextId,
         wrote |-> IF Served(resp) THEN call.tid ELSE 0]

RespondDeleteTerminal(call, o) ==
    LET resp == DbDeleteSingle(call.tid, o)
    IN  [call |-> DeleteTerminalAfterDelete(call, resp),
         db |-> IF Served(resp) THEN dbTerminals \ {RowOf(call.tid)}
                ELSE dbTerminals,
         nextId |-> nextId,
         wrote |-> IF Served(resp) THEN call.tid ELSE 0]

\* The backend has an id to give to a served insert.
CanRespond(call, o) ==
    (call.fn = "create" /\ o = "ok") => nextId <= MaxTerminals

\* ---- steps of the calls of the outside callers
Responded(c, r) ==
    /\ calls' = [Disturb(c, r.wrote, r.wrote # 0) EXCEPT ![c] = r.call]
    /\ dbTerminals' = r.db
    /\ nextId' = r.nextId

FetchTerminalsQuery(c) ==
    /\ calls[c].fn = "fetchTerminals" /\ calls[c].pc = "select"
    /\ \E o \in Outcomes : Responded(c, RespondFetchTerminals(calls[c], o))
    /\ UNCHANGED hist

CreateTerminalInsert(c) ==
    /\ calls[c].fn = "create" /\ calls[c].pc = "insert"
    /\ \E o \in Outcomes :
          LET r == RespondCreateTerminal(calls[c], o)
          IN  /\ CanRespond(calls[c], o)
              /\ Responded(c, r)
              /\ hist' = IF r.wrote # 0 THEN [hist EXCEPT ![r.wrote] = <<"active">>]
                         ELSE hist

ToggleRead(c) ==
    /\ calls[c].fn = "toggle" /\ calls[c].pc = "read"
    /\ \E o \in Outcomes : Responded(c, RespondToggleRead(calls[c], o))
    /\ UNCHANGED hist

ToggleWrite(c) ==
    /\ calls[c].fn = "toggle" /\ calls[c].pc = "write"
    /\ \E o \in Outcomes :
          LET r == RespondToggleWrite(calls[c], o)
              s == NewStatus(calls[c].cur)
          IN  /\ Responded(c, r)
              /\ hist' = IF r.wrote = 0 THEN hist
                         ELSE IF calls[c].dirty THEN [hist EXCEPT ![r.wrote] = <<s>>]
                         \* an undisturbed run keeps its latest three statuses
                         ELSE [hist EXCEPT ![r.wrote] =
                                  IF Len(@) < 3 THEN Append(@, s)
                                  ELSE <<@[2], @[3], s>>]

DeleteTerminalDelete(c) ==
    /\ calls[c].fn = "delete" /\ calls[c].pc = "delete"
    /\ \E o \in Outcomes :
          LET r == RespondDeleteTerminal(calls[c], o)
          IN  /\ Responded(c, r)
              /\ hist' = IF r.wrote # 0 THEN [hist EXCEPT ![r.wrote] = <<>>] ELSE hist

\* ---- entry of the calls
StartFetchTerminals(call, r) ==
    [IdleCall EXCEPT !.fn = "fetchTerminals", !.rid = r, !.pc = "select"]
StartCreateTerminal(call, r, n) ==
    [IdleCall EXCEPT !.fn = "create", !.rid = r, !.name = n, !.pc = "insert"]
StartToggleTerminalStatus(call, t) ==
    [IdleCall EXCEPT !.fn = "toggle", !.tid = t, !.pc = "read"]
StartDeleteTerminal(call, t) ==
    [IdleCall EXCEPT !.fn = "delete", !.tid = t, !.pc = "delete"]

\* ---- a caller outside the views: any call, any argument, any time
CallFetchTerminals(c) ==
    /\ calls[c].pc = "idle"
    /\ \E r \in Retailers : calls' = [calls EXCEPT ![c] = StartFetchTerminals(@, r)]
    /\ UNCHANGED <<dbTerminals, nextId, hist>>

CallCreateTerminal(c) ==
    /\ calls[c].pc = "idle"
    /\ \E r \in Retailers, n \in Names :
          calls' = [calls EXCEPT ![c] = StartCreateTerminal(@, r, n)]
    /\ UNCHANGED <<dbTerminals, nextId, hist>>

CallToggleTerminalStatus(c) ==
    /\ calls[c].pc = "idle"
    /\ \E t \in TerminalIds :
          calls' = [calls EXCEPT ![c] = StartToggleTerminalStatus(@, t)]
    /\ UNCHANGED <<dbTerminals, nextId, hist>>

CallDeleteTerminal(c) ==
    /\ calls[c].pc = "idle"
    /\ \E t \in TerminalIds :
          calls' = [calls EXCEPT ![c] = StartDeleteTerminal(@, t)]
    /\ UNCHANGED <<dbTerminals, nextId, hist>>

\* The caller takes the result; its slot is free again.
CallReturn(c) ==
    /\ calls[c].pc \in {"done", "rejected"}
    /\ calls' = [calls EXCEPT ![c] = IdleCall]
    /\ UNCHANGED <<dbTerminals, nextId, hist>>

\* ---- initial backend: no terminal, or one of either status
TermInit ==
    /\ dbTerminals \in {{}} \cup {{TerminalRow(1, r, <<"a">>, s)} :
                                     r \in Retailers, s \in Statuses}
    /\ nextId = Cardinality(dbTerminals) + 1
    /\ calls = [c \in Callers |-> IdleCall]
    /\ hist = [t \in TerminalIds |->
                  IF HasRow(t) THEN <<RowOf(t).status>> ELSE <<>>]

\* =================================================== agents: userActions
VARIABLES
    authUsers,      \* identity records of the auth system (user ids)
    nextUserId,     \* next user id the auth system assigns
    profiles,       \* backend table "profiles", the rows with role "agent"
    retailerAgent,  \* backend table "retailers": agent_profile_id per row (0: null)
    fa,             \* the fetchAgents call
    ca              \* the createAgent call

agentVars == <<authUsers, nextUserId, profiles, retailerAgent, fa, ca>>

ProfileRow(u, n, e, ph) ==
    [id |-> u, full_name |-> n, email |-> e, phone |-> ph, avatar_url |-> None]

\* Every order a set of rows can come back in.
Orders(rows) ==
    {q \in [1..Cardinality(rows) -> rows] :
        \A i, j \in 1..Cardinality(rows) : i # j => q[i] # q[j]}

\* .from("retailers").select("id", {count: "exact", head: true})
\*      .eq("agent_profile_id", a)
DbCountRetailers(a, o) ==
    IF o \in ThrownErrors THEN RespThrow(o)
    ELSE IF o \in BackendErrors THEN RespErr(o)
    ELSE RespOk(Cardinality({r \in Retailers : retailerAgent[r] = a}))

\* The error the catch block returns for a thrown exception.
Caught(x) == [data |-> None, error |-> x]

IdleFetchAgents ==
    [pc |-> "idle", rosterOp |-> None, roster |-> <<>>, pending |-> {},
     issued |-> {}, countError |-> <<>>, withCounts |-> <<>>,
     thrown |-> None, result |-> NoResult,
     \* history: a count query came back before one of an earlier agent
     outOfOrder |-> FALSE]

\* A fetchAgents that takes a failed roster query for an empty roster.
FetchAgentsAfterRosterSoft(call, resp) ==
    LET logged == [call EXCEPT !.rosterOp = Some(Op("select", resp))]
    IN  IF resp.thrown # None
        THEN [logged EXCEPT !.pc = "done", !.thrown = resp.thrown,
                            !.result = Caught(resp.thrown)]
        ELSE IF resp.error # None
        THEN [logged EXCEPT !.pc = "counts"]
        ELSE LET data == The(resp.data)
             IN  [logged EXCEPT !.pc = "counts", !.roster = data,
                                !.pending = 1..Len(data),
                                !.issued = 1..Len(data),
                                !.countError = [i \in 1..Len(data) |-> None],
                                !.withCounts = [i \in 1..Len(data) |-> None]]

\* fetchAgents, after the profiles query: the error is returned, or one count
\* query per agent of the roster is issued at once.
FetchAgentsAfterRoster(call, resp) ==
    LET logged == [call EXCEPT !.rosterOp = Some(Op("select", resp))]
    IN  IF resp.thrown # None
        THEN [logged EXCEPT !.pc = "done", !.thrown = resp.thrown,
                            !.result = Caught(resp.thrown)]
        ELSE IF resp.error # None
        THEN [logged EXCEPT !.pc = "done",
                            !.result = [data |-> None, error |-> resp.error]]
        ELSE LET data == The(resp.data)
             IN  [logged EXCEPT !.pc = "counts", !.roster = data,
                                !.pending = 1..Len(data),
                                !.issued = 1..Len(data),
                                !.countError = [i \in 1..Len(data) |-> None],
                                !.withCounts = [i \in 1..Len(data) |-> None]]

\* The object the map callback returns for one agent.
AgentWithCount(agent, resp) ==
    [id |-> agent.id, full_name |-> agent.full_name, email |-> agent.email,
     phone |-> agent.phone, avatar_url |-> agent.avatar_url,
     \* count || 0
     retailer_count |-> IF resp.data = None \/ The(resp.data) = 0 THEN 0
                        ELSE The(resp.data)]

\* A fetchAgents that surfaces a failed count query as its own failure.
FetchAgentsAfterCountHard(call, i, resp) ==
    IF resp.thrown # None
    THEN [call EXCEPT !.pc = "done", !.pending = @ \ {i}, !.thrown = resp.thrown,
                      !.result = Caught(resp.thrown)]
    ELSE IF resp.error # None
    THEN [call EXCEPT !.pc = "done", !.pending = @ \ {i},
                      !.countError[i] = resp.error,
                      !.result = [data |-> None, error |-> resp.error]]
    ELSE [call EXCEPT !.pending = @ \ {i},
                      !.countError[i] = resp.error,
                      !.withCounts[i] = Some(AgentWithCount(call.roster[i], resp))]

\* fetchAgents, after the count query of the roster's i-th agent: an error is
\* logged only; a rejected query rejects the whole Promise.all, whose catch
\* returns at once, the other count queries still outstanding.
FetchAgentsAfterCount(call, i, resp) ==
    IF resp.thrown # None
    THEN [call EXCEPT !.pc = "done", !.pending = @ \ {i}, !.thrown = resp.thrown,
                      !.result = Caught(resp.thrown)]
    ELSE [call EXCEPT !.pending = @ \ {i},
                      !.countError[i] = resp.error,
                      !.withCounts[i] = Some(AgentWithCount(call.roster[i], resp))]

\* A fetchAgents that returns the agents in the reverse of the roster's order.
FetchAgentsAfterAllReversed(call) ==
    [call EXCEPT !.pc = "done",
                 !.result = [data |-> Some([i \in 1..Len(call.roster) |->
                                               The(call.withCounts[Len(call.roster) + 1 - i])]),
                             error |-> None]]

\* fetchAgents, once every map callback has returned
FetchAgentsAfterAll(call) ==
    [call EXCEPT !.pc = "done",
                 !.result = [data |-> Some([i \in 1..Len(call.roster) |->
                                               The(call.withCounts[i])]),
                             error |-> None]]

FetchAgentsRoster ==
    /\ fa.pc = "roster"
    /\ \E o \in Outcomes :
          IF o = "ok"
          THEN \E q \in Orders(profiles) :
                  fa' = FetchAgentsAfterRoster(fa, RespOk(q))
          ELSE fa' = FetchAgentsAfterRoster(
                        fa, IF o \in ThrownErrors THEN RespThrow(o) ELSE RespErr(o))
    /\ UNCHANGED <<authUsers, nextUserId, profiles, retailerAgent, ca>>

FetchAgentsCount ==
    /\ fa.pc = "counts"
    /\ \E i \in fa.pending, o \in Outcomes :
          fa' = [FetchAgentsAfterCount(fa, i, DbCountRetailers(fa.roster[i].id, o))
                    EXCEPT !.outOfOrder = @ \/ \E j \in fa.pending : j < i]
    /\ UNCHANGED <<authUsers, nextUserId, profiles, retailerAgent, ca>>

FetchAgentsAll ==
    /\ fa.pc = "counts" /\ fa.pending = {}
    /\ fa' = FetchAgentsAfterAll(fa)
    /\ UNCHANGED <<authUsers, nextUserId, profiles, retailerAgent, ca>>

\* ---- createAgent
IdleCreateAgent ==
    [pc |-> "idle", email |-> "", fullName |-> "", phone |-> None,
     user |-> None, ops |-> <<>>, result |-> NoResult]

\* supabase.auth.signUp: served with a new user, served with no user,
\* refused with an error, or rejected.
AuthSignUp(o) ==
    IF o \in ThrownErrors THEN RespThrow(o)
    ELSE IF o \in BackendErrors THEN RespErr(o)
    ELSE IF o = "no_user" THEN RespOk([user |-> None])
    ELSE RespOk([user |-> Some([id |-> nextUserId])])

SignedUp(resp) == Served(resp) /\ The(resp.data).user # None

\* A createAgent that does not check the sign-up's error.
CreateAgentAfterSignUpUnchecked(call, resp) ==
    LET logged == [call EXCEPT !.ops = Append(@, Op("signUp", resp))]
    IN  IF resp.thrown # None
        THEN [logged EXCEPT !.pc = "done", !.result = Caught(resp.thrown)]
        ELSE IF resp.error # None
        THEN [logged EXCEPT !.pc = "insert", !.user = Some([id |-> 0])]
        ELSE IF The(resp.data).user = None
        THEN [logged EXCEPT !.pc = "done",
                            !.result = [data |-> None, error |-> Some("Failed to create user in authentication system")]]
        ELSE [logged EXCEPT !.pc = "insert", !.user = The(resp.data).user]

\* createAgent, after the sign-up
CreateAgentAfterSignUp(call, resp) ==
    LET logged == [call EXCEPT !.ops = Append(@, Op("signUp", resp))]
    IN  IF resp.thrown # None
        THEN [logged EXCEPT !.pc = "done", !.result = Caught(resp.thrown)]
        ELSE IF resp.error # None
        THEN [logged EXCEPT !.pc = "done",
                            !.result = [data |-> None, error |-> resp.error]]
        ELSE IF The(resp.data).user = None
        THEN [logged EXCEPT !.pc = "done",
                            !.result = [data |-> None, error |-> Some("Failed to create user in authentication system")]]
        ELSE [logged EXCEPT !.pc = "insert", !.user = The(resp.data).user]

\* .from("profiles").insert({id, full_name, email, phone, role}).select("id").single()
DbInsertProfile(u, o) ==
    IF o \in ThrownErrors THEN RespThrow(o)
    ELSE IF o \in BackendErrors THEN RespErr(o)
    ELSE RespOk([id |-> u])

\* createAgent, after the profile insert
CreateAgentAfterInsert(call, resp) ==
    LET logged == [call EXCEPT !.ops = Append(@, Op("insert", resp))]
    IN  IF resp.thrown # None
        THEN [logged EXCEPT !.pc = "done", !.result = Caught(resp.thrown)]
        ELSE IF resp.error # None
        THEN [logged EXCEPT !.pc = "done",
                            !.result = [data |-> None, error |-> resp.error]]
        ELSE [logged EXCEPT !.pc = "done",
                            !.result = [data |-> resp.data, error |-> None]]

\* A createAgent that deletes the identity when the profile insert fails.
AuthUsersRolledBack(u, resp) == IF Served(resp) THEN authUsers ELSE authUsers \ {u}

\* The identity records once the profile insert has come back: createAgent
\* issues nothing more, whatever the insert's outcome.
AuthUsersAfterInsert(u, resp) == authUsers

CreateAgentSignUp ==
    /\ ca.pc = "signUp"
    /\ \E o \in Outcomes \cup {"no_user"} :
          LET resp == AuthSignUp(o)
          IN  /\ SignedUp(resp) => nextUserId <= MaxAgents
              /\ ca' = CreateAgentAfterSignUp(ca, resp)
              /\ authUsers' = IF SignedUp(resp) THEN authUsers \cup {nextUserId}
                              ELSE authUsers
              /\ nextUserId' = IF SignedUp(resp) THEN nextUserId + 1 ELSE nextUserId
    /\ UNCHANGED <<profiles, retailerAgent, fa>>

CreateAgentInsert ==
    /\ ca.pc = "insert"
    /\ \E o \in Outcomes :
          LET u == The(ca.user).id
              resp == DbInsertProfile(u, o)
          IN  /\ ca' = CreateAgentAfterInsert(ca, resp)
              /\ profiles' = IF Served(resp)
                             THEN profiles \cup
                                  {ProfileRow(u, ca.fullName, ca.email, ca.phone)}
                             ELSE profiles
              /\ authUsers' = AuthUsersAfterInsert(u, resp)
    /\ UNCHANGED <<nextUserId, retailerAgent, fa>>

\* ---- a caller outside the views
CallFetchAgents ==
    /\ fa.pc = "idle"
    /\ fa' = [IdleFetchAgents EXCEPT !.pc = "roster"]
    /\ UNCHANGED <<authUsers, nextUserId, profiles, retailerAgent, ca>>

ReturnFetchAgents ==
    /\ fa.pc = "done"
    /\ fa' = IdleFetchAgents
    /\ UNCHANGED <<authUsers, nextUserId, profiles, retailerAgent, ca>>

CallCreateAgent ==
    /\ ca.pc = "idle"
    /\ \E e \in {"a@x"}, n \in {"Ann"}, ph \in {None, Some("p1")} :
          ca' = [IdleCreateAgent EXCEPT !.pc = "signUp", !.email = e,
                                        !.fullName = n, !.phone = ph]
    /\ UNCHANGED <<authUsers, nextUserId, profiles, retailerAgent, fa>>

ReturnCreateAgent ==
    /\ ca.pc = "done"
    /\ ca' = IdleCreateAgent
    /\ UNCHANGED <<authUsers, nextUserId, profiles, retailerAgent, fa>>

\* ---- initial backend: the first k users are agents with a profile; each
\* retailer references one of them or none
AgentInit ==
    /\ \E k \in 0..MaxAgents :
          /\ authUsers = 1..k
          /\ nextUserId = k + 1
          /\ profiles = {ProfileRow(u, "Ann", "a@x", None) : u \in 1..k}
          /\ retailerAgent \in [Retailers -> 0..k]
    /\ fa = IdleFetchAgents
    /\ ca = IdleCreateAgent

\* ============================================= retailer-detail view (page)
VARIABLES
    view,           \* the component's state (one field per useState) and route id
    tasks,          \* running async handlers of the view, one per call slot
    answer,         \* history: the response the last step delivered to a
                    \* handler (which handler, where it stood, how its call
                    \* ended), none after a step that delivered none
    navs            \* history: how often the route's id has changed under
                    \* the mounted view

detailVars == <<view, tasks, answer, navs>>

\* Backend table "retailers" as fetchRetailers returns it.
RetailerTable ==
    <<[id |-> "r1", name |-> "Acme", status |-> "active"],
      [id |-> "r2", name |-> "Bolt", status |-> "inactive"]>>

\* Backend sales report as fetchSalesReport({}) returns it.
SalesTable ==
    <<[retailer_name |-> "Acme", amount |-> 1, created_at |-> <<"0", "1", "T", "1">>],
      [retailer_name |-> "Bolt", amount |-> 2, created_at |-> <<"1", "0", "T", "0">>]>>

\* The one query of a report function (fetchRetailers, fetchSalesReport,
\* fetchEarningsSummary, fetchInventoryReport) over the rows it selects.
DbSelectReport(rows, o) ==
    IF o \in ThrownErrors THEN RespThrow(o)
    ELSE IF o \in BackendErrors THEN RespErr(o)
    ELSE RespOk(rows)

\* A report function, after its query
FetchAfterQuery(call, resp) ==
    LET logged == [call EXCEPT !.ops = Append(@, Op("select", resp))]
    IN  IF resp.thrown # None THEN Rejected(logged, resp.thrown)
        ELSE IF resp.error # None
             THEN Returned(logged, [data |-> None, error |-> resp.error])
        ELSE Returned(logged, [data |-> resp.data, error |-> None])

StartFetchReport(fn) == [IdleCall EXCEPT !.fn = fn, !.pc = "select"]

\* The response to whatever request the call has pending.
Respond(call, o) ==
    CASE call.fn = "fetchRetailers" ->
             [call |-> FetchAfterQuery(call, DbSelectReport(RetailerTable, o)),
              db |-> dbTerminals, nextId |-> nextId, wrote |-> 0]
      [] call.fn = "fetchSalesReport" ->
             [call |-> FetchAfterQuery(call, DbSelectReport(SalesTable, o)),
              db |-> dbTerminals, nextId |-> nextId, wrote |-> 0]
      [] call.fn = "fetchTerminals" -> RespondFetchTerminals(call, o)
      [] call.fn = "create" -> RespondCreateTerminal(call, o)
      [] call.fn = "delete" -> RespondDeleteTerminal(call, o)
      [] call.fn = "toggle" /\ call.pc = "read" -> RespondToggleRead(call, o)
      [] call.fn = "toggle" /\ call.pc = "write" -> RespondToggleWrite(call, o)

\* ---- strings
\* String.prototype.trim over the two characters of the model
RECURSIVE Trim(_)
Trim(s) ==
    IF s # <<>> /\ Head(s) = " " THEN Trim(Tail(s))
    ELSE IF s # <<>> /\ s[Len(s)] = " " THEN Trim(SubSeq(s, 1, Len(s) - 1))
    ELSE s

\* Messages are the fixed text followed by the error's message.
\* err instanceof Error ? err.message : fallback (every exception is an Error)
MessageOf(x) == <<The(x)>>

\* ---- component state
InitView ==
    [id |-> None, retailer |-> None, terminals |-> <<>>, sales |-> <<>>,
     isLoading |-> TRUE, error |-> None,
     showAddTerminalModal |-> FALSE, terminalFormData |-> [name |-> <<>>],
     isSubmittingTerminal |-> FALSE, terminalFormError |-> None,
     activeTerminalMenu |-> None, showDeleteModal |-> FALSE,
     terminalToDelete |-> None, isProcessingTerminalAction |-> FALSE]

IdleTask ==
    [kind |-> "none", pc |-> "idle", id |-> "none", tid |-> 0, name |-> <<>>,
     found |-> None]

\* The page body (tables, buttons, dialogs) is rendered past the loading,
\* error and not-found returns only.
Rendered == ~view.isLoading /\ view.error = None /\ view.retailer # None
\* An open dialog is modal: the page behind it takes no clicks.
NoDialog == ~view.showAddTerminalModal /\ ~view.showDeleteModal
Shown == {view.terminals[i] : i \in 1..Len(view.terminals)}

\* What a handler step leaves: the component state, the handler, its call.
Await(v, task, call) == [view |-> v, task |-> task, call |-> call]
Over(v) == [view |-> v, task |-> IdleTask, call |-> IdleCall]

\* A handler starts in the lowest free slot and runs to its first await.
Begin(next) ==
    /\ view' = next.view
    /\ LET free == {c \in Callers : tasks[c].kind = "none" /\ calls[c].pc = "idle"}
           slot == CHOOSE c \in free : \A d \in free : c <= d
       IN  /\ free # {}
           /\ tasks' = [tasks EXCEPT ![slot] = next.task]
           /\ calls' = [calls EXCEPT ![slot] = next.call]
    /\ UNCHANGED <<dbTerminals, nextId, hist>>

\* ---- loadRetailerData
FindRetailer(data, id) ==
    IF data = None THEN None
    ELSE LET rows == The(data)
             hits == {i \in 1..Len(rows) : rows[i].id = id}
         IN  IF hits = {} THEN None
             ELSE Some(rows[CHOOSE i \in hits : \A j \in hits : i <= j])

\* catch + finally of loadRetailerData
LoadFailed(v, msg) == [v EXCEPT !.error = Some(msg), !.isLoading = FALSE]

\* The effect on [id]: a string id starts a load cycle.
LoadStart(v, id) ==
    Await([v EXCEPT !.id = Some(id), !.isLoading = TRUE, !.error = None],
          [IdleTask EXCEPT !.kind = "load", !.pc = "retailers", !.id = id],
          StartFetchReport("fetchRetailers"))

\* A lookup that drops its response when the route's id is no longer the id
\* the cycle was started for.
LoadAfterRetailersTagged(v, task, call) ==
    LET found == FindRetailer(call.result.data, task.id)
    IN  IF v.id # Some(task.id) THEN Over(v)
        ELSE IF call.pc = "rejected" THEN Over(LoadFailed(v, MessageOf(call.thrown)))
        ELSE IF call.result.error # None
        THEN Over(LoadFailed(v, <<"Failed to load retailer", The(call.result.error)>>))
        ELSE IF found = None THEN Over(LoadFailed(v, <<"Retailer not found">>))
        ELSE Await([v EXCEPT !.retailer = found],
                   [task EXCEPT !.pc = "terminals", !.found = found],
                   StartFetchTerminals(call, task.id))

\* A lookup whose returned error is only logged, as the two later fetches'
\* errors are.
LoadAfterRetailersSoft(v, task, call) ==
    LET found == FindRetailer(call.result.data, task.id)
    IN  IF call.pc = "rejected" THEN Over(LoadFailed(v, MessageOf(call.thrown)))
        ELSE IF found = None THEN Over(LoadFailed(v, <<"Retailer not found">>))
        ELSE Await([v EXCEPT !.retailer = found],
                   [task EXCEPT !.pc = "terminals", !.found = found],
                   StartFetchTerminals(call, task.id))

LoadAfterRetailers(v, task, call) ==
    LET found == FindRetailer(call.result.data, task.id)
    IN  IF call.pc = "rejected" THEN Over(LoadFailed(v, MessageOf(call.thrown)))
        ELSE IF call.result.error # None
        THEN Over(LoadFailed(v, <<"Failed to load retailer", The(call.result.error)>>))
        ELSE IF found = None THEN Over(LoadFailed(v, <<"Retailer not found">>))
        ELSE Await([v EXCEPT !.retailer = found],
                   [task EXCEPT !.pc = "terminals", !.found = found],
                   StartFetchTerminals(call, task.id))

LoadAfterTerminals(v, task, call) ==
    IF call.pc = "rejected" THEN Over(LoadFailed(v, MessageOf(call.thrown)))
    ELSE Await(IF call.result.error # None THEN v
               ELSE [v EXCEPT !.terminals =
                        IF call.result.data = None THEN <<>>
                        ELSE The(call.result.data)],
               [task EXCEPT !.pc = "sales"],
               StartFetchReport("fetchSalesReport"))

FilterSales(data, name) ==
    IF data = None THEN <<>>
    ELSE SelectSeq(The(data), LAMBDA sale : sale.retailer_name = name)

LoadAfterSales(v, task, call) ==
    IF call.pc = "rejected" THEN Over(LoadFailed(v, MessageOf(call.thrown)))
    ELSE Over([(IF call.result.error # None THEN v
                ELSE [v EXCEPT !.sales =
                         FilterSales(call.result.data, The(task.found).name)])
               EXCEPT !.isLoading = FALSE])

\* The effect on [id] at mount, once the router has the id: the id of a
\* retailer, or one no retailer has.
Mount ==
    /\ view.id = None
    /\ \E id \in Retailers \cup {"r9"} : Begin(LoadStart(view, id))

\* The effect on [id] again: the route changes to another id while the view
\* stays mounted, its state kept. The cycle before it is not cancelled.
RouteChange ==
    /\ view.id # None /\ navs < MaxNavs
    /\ \E id \in (Retailers \cup {"r9"}) \ view.id : Begin(LoadStart(view, id))
    /\ navs' = navs + 1

\* ---- the refetch shared by the three mutation handlers
\* const { data: terminalsData } = await fetchAdminTerminals(id);
\* if (terminalsData) setTerminals(terminalsData);
Refetched(v, call) ==
    IF call.result.data # None THEN [v EXCEPT !.terminals = The(call.result.data)]
    ELSE v

\* ---- handleToggleTerminalStatus
\* A finally block that leaves the in-flight flag up.
ToggleFinallyStuck(v) == [v EXCEPT !.activeTerminalMenu = None]

ToggleFinally(v) ==
    [v EXCEPT !.isProcessingTerminalAction = FALSE, !.activeTerminalMenu = None]

HandleToggleStart(v, terminal) ==
    IF v.id = None THEN Over(v)
    ELSE Await([v EXCEPT !.isProcessingTerminalAction = TRUE],
               [IdleTask EXCEPT !.kind = "toggle", !.pc = "mutate",
                                !.id = The(v.id), !.tid = terminal.id],
               StartToggleTerminalStatus(IdleCall, terminal.id))

HandleToggleAfterMutate(v, task, call) ==
    IF call.pc = "rejected" \/ call.result.error # None THEN Over(ToggleFinally(v))
    ELSE Await(v, [task EXCEPT !.pc = "refetch"], StartFetchTerminals(call, task.id))

HandleToggleAfterRefetch(v, task, call) ==
    IF call.pc = "rejected" THEN Over(ToggleFinally(v))
    ELSE Over(ToggleFinally(Refetched(v, call)))

\* ---- handleDeleteTerminal
DeleteFinally(v) == [v EXCEPT !.isProcessingTerminalAction = FALSE]

HandleDeleteStart(v) ==
    IF v.terminalToDelete = None \/ v.id = None THEN Over(v)
    ELSE Await([v EXCEPT !.isProcessingTerminalAction = TRUE],
               [IdleTask EXCEPT !.kind = "delete", !.pc = "mutate",
                                !.id = The(v.id), !.tid = The(v.terminalToDelete).id],
               StartDeleteTerminal(IdleCall, The(v.terminalToDelete).id))

\* A delete handler that closes the dialog whatever deleteTerminal returned.
HandleDeleteAfterMutateClosing(v, task, call) ==
    IF call.pc = "rejected" \/ call.result.error # None
    THEN Over(DeleteFinally([v EXCEPT !.showDeleteModal = FALSE,
                                      !.terminalToDelete = None]))
    ELSE Await(v, [task EXCEPT !.pc = "refetch"], StartFetchTerminals(call, task.id))

HandleDeleteAfterMutate(v, task, call) ==
    IF call.pc = "rejected" \/ call.result.error # None THEN Over(DeleteFinally(v))
    ELSE Await(v, [task EXCEPT !.pc = "refetch"], StartFetchTerminals(call, task.id))

HandleDeleteAfterRefetch(v, task, call) ==
    IF call.pc = "rejected" THEN Over(DeleteFinally(v))
    ELSE Over(DeleteFinally([Refetched(v, call) EXCEPT
                                !.showDeleteModal = FALSE,
                                !.terminalToDelete = None]))

\* ---- handleTerminalSubmit
\* A handler that validates nothing.
NameMissingUnchecked(name) == FALSE

\* !terminalFormData.name.trim()
NameMissing(name) == Trim(name) = <<>>

SubmitFinally(v) == [v EXCEPT !.isSubmittingTerminal = FALSE]

HandleSubmitStart(v) ==
    IF NameMissing(v.terminalFormData.name)
    THEN Over([v EXCEPT !.terminalFormError = Some(<<"Terminal name is required">>)])
    ELSE IF v.id = None
    THEN Over([v EXCEPT !.terminalFormError = Some(<<"Invalid retailer ID">>)])
    ELSE Await([v EXCEPT !.isSubmittingTerminal = TRUE, !.terminalFormError = None],
               [IdleTask EXCEPT !.kind = "submit", !.pc = "mutate",
                                !.id = The(v.id), !.name = v.terminalFormData.name],
               StartCreateTerminal(IdleCall, The(v.id), v.terminalFormData.name))

\* A create handler that absorbs a failed createTerminal as the toggle and
\* delete handlers absorb theirs.
HandleSubmitAfterMutateSilent(v, task, call) ==
    IF call.pc = "rejected" \/ call.result.error # None THEN Over(SubmitFinally(v))
    ELSE Await(v, [task EXCEPT !.pc = "refetch"], StartFetchTerminals(call, task.id))

HandleSubmitAfterMutate(v, task, call) ==
    IF call.pc = "rejected"
    THEN Over(SubmitFinally([v EXCEPT !.terminalFormError =
                 Some(<<"Error creating terminal", The(call.thrown)>>)]))
    ELSE IF call.result.error # None
    THEN Over(SubmitFinally([v EXCEPT !.terminalFormError =
                 Some(<<"Failed to create terminal", The(call.result.error)>>)]))
    ELSE Await(v, [task EXCEPT !.pc = "refetch"], StartFetchTerminals(call, task.id))

HandleSubmitAfterRefetch(v, task, call) ==
    IF call.pc = "rejected"
    THEN Over(SubmitFinally([v EXCEPT !.terminalFormError =
                 Some(<<"Error creating terminal", The(call.thrown)>>)]))
    ELSE Over(SubmitFinally([Refetched(v, call) EXCEPT
                                !.showAddTerminalModal = FALSE,
                                !.terminalFormData = [name |-> <<>>]]))

\* ---- the handlers' later steps
\* A response to the call of the handler in slot c. The call takes it; if the
\* call returns or rejects with it, the handler resumes in the same turn of
\* the event loop, where its source goes on, and runs to its next await or to
\* its end.
Resume(c, kind, pc) ==
    /\ tasks[c].kind = kind /\ tasks[c].pc = pc
    /\ \E o \in Outcomes :
          LET r == Respond(calls[c], o)
              v == view
              task == tasks[c]
              call == r.call
              next ==
                 IF call.pc \notin {"done", "rejected"} THEN Await(v, task, call)
                 ELSE CASE kind = "load" /\ pc = "retailers" ->
                               LoadAfterRetailers(v, task, call)
                        [] kind = "load" /\ pc = "terminals" ->
                               LoadAfterTerminals(v, task, call)
                        [] kind = "load" /\ pc = "sales" ->
                               LoadAfterSales(v, task, call)
                        [] kind = "toggle" /\ pc = "mutate" ->
                               HandleToggleAfterMutate(v, task, call)
                        [] kind = "toggle" /\ pc = "refetch" ->
                               HandleToggleAfterRefetch(v, task, call)
                        [] kind = "delete" /\ pc = "mutate" ->
                               HandleDeleteAfterMutate(v, task, call)
                        [] kind = "delete" /\ pc = "refetch" ->
                               HandleDeleteAfterRefetch(v, task, call)
                        [] kind = "submit" /\ pc = "mutate" ->
                               HandleSubmitAfterMutate(v, task, call)
                        [] kind = "submit" /\ pc = "refetch" ->
                               HandleSubmitAfterRefetch(v, task, call)
          IN  /\ CanRespond(calls[c], o)
              /\ view' = next.view
              /\ tasks' = [tasks EXCEPT ![c] = next.task]
              /\ calls' = [calls EXCEPT ![c] = next.call]
              /\ dbTerminals' = r.db
              /\ nextId' = r.nextId
              /\ answer' = Some([slot |-> c, kind |-> kind, pc |-> pc,
                                 fn |-> calls[c].fn,
                                 ended |-> call.pc \in {"done", "rejected"},
                                 error |-> IF call.pc = "done"
                                           THEN call.result.error ELSE None,
                                 thrown |-> IF call.pc = "rejected"
                                            THEN call.thrown ELSE None])
    /\ UNCHANGED hist

\* ---- user events
\* A handler that returns at once awaits nothing and takes no slot.
Handle(next) ==
    IF next.task.kind = "none"
    THEN view' = next.view /\ UNCHANGED <<termVars, tasks>>
    ELSE Begin(next)

\* The Power button of the open row menu.
HandleToggleTerminalStatus ==
    /\ Rendered /\ NoDialog /\ ~view.isProcessingTerminalAction
    /\ \E terminal \in Shown :
          /\ view.activeTerminalMenu = Some(terminal.id)
          /\ Handle(HandleToggleStart(view, terminal))

\* The Delete button of the delete dialog.
HandleDeleteTerminal ==
    /\ Rendered /\ view.showDeleteModal /\ ~view.isProcessingTerminalAction
    /\ Handle(HandleDeleteStart(view))

\* Submission of the add-terminal form.
HandleTerminalSubmit ==
    /\ Rendered /\ view.showAddTerminalModal /\ ~view.isSubmittingTerminal
    /\ Handle(HandleSubmitStart(view))

\* Typing into the name field.
HandleTerminalInputChange ==
    /\ Rendered /\ view.showAddTerminalModal
    /\ \E name \in Names :
          /\ name # view.terminalFormData.name
          /\ view' = [view EXCEPT !.terminalFormData = [name |-> name]]
    /\ UNCHANGED <<termVars, tasks>>

\* The "Add Terminal" button.
OpenAddTerminalModal ==
    /\ Rendered /\ NoDialog
    /\ view' = [view EXCEPT !.showAddTerminalModal = TRUE]
    /\ UNCHANGED <<termVars, tasks>>

\* Cancel, the X or Escape of the add-terminal dialog.
CloseAddTerminalModal ==
    /\ Rendered /\ view.showAddTerminalModal
    /\ view' = [view EXCEPT !.showAddTerminalModal = FALSE]
    /\ UNCHANGED <<termVars, tasks>>

\* The "..." button of a row.
ToggleTerminalMenu ==
    /\ Rendered /\ NoDialog
    /\ \E terminal \in Shown :
          view' = [view EXCEPT !.activeTerminalMenu =
                      IF @ = Some(terminal.id) THEN None ELSE Some(terminal.id)]
    /\ UNCHANGED <<termVars, tasks>>

\* The Delete entry of the open row menu.
AskDeleteTerminal ==
    /\ Rendered /\ NoDialog /\ ~view.isProcessingTerminalAction
    /\ \E terminal \in Shown :
          /\ view.activeTerminalMenu = Some(terminal.id)
          /\ view' = [view EXCEPT !.terminalToDelete = Some(terminal),
                                  !.showDeleteModal = TRUE,
                                  !.activeTerminalMenu = None]
    /\ UNCHANGED <<termVars, tasks>>

\* Cancel of the delete dialog.
CancelDeleteTerminal ==
    /\ Rendered /\ view.showDeleteModal
    /\ view' = [view EXCEPT !.terminalToDelete = None, !.showDeleteModal = FALSE]
    /\ UNCHANGED <<termVars, tasks>>

\* The X or Escape of the delete dialog.
CloseDeleteModal ==
    /\ Rendered /\ view.showDeleteModal
    /\ view' = [view EXCEPT !.showDeleteModal = FALSE]
    /\ UNCHANGED <<termVars, tasks>>

DetailIdle ==
    /\ view = InitView
    /\ tasks = [c \in Callers |-> IdleTask]
    /\ answer = None
    /\ navs = 0

\* ================================================ admin dashboard (page)
VARIABLES
    guard,          \* the role guard's check: pending, authorized or denied
    dash,           \* the component's state (one field per useState)
    load,           \* loadDashboardData: position, locals, pending call, log
    memo            \* dailySalesData as last computed by a render

dashVars == <<guard, dash, load, memo>>

\* ---- backend reports
EarningsTable ==
    <<[voucher_type |-> "Mobile", total_amount |-> 3, platform_commission |-> 1],
      [voucher_type |-> "Power", total_amount |-> 5, platform_commission |-> 2]>>

\* "a".localeCompare("b") over the characters of an ISO date: -1, 0 or 1.
RECURSIVE LocaleCompare(_, _)
LocaleCompare(a, b) ==
    IF a = <<>> /\ b = <<>> THEN 0
    ELSE IF a = <<>> THEN 0 - 1
    ELSE IF b = <<>> THEN 1
    ELSE LET rank(ch) == CASE ch = "0" -> 0 [] ch = "1" -> 1 [] OTHER -> 2
         IN  IF rank(Head(a)) < rank(Head(b)) THEN 0 - 1
             ELSE IF rank(Head(a)) > rank(Head(b)) THEN 1
             ELSE LocaleCompare(Tail(a), Tail(b))

\* The rows fetchSalesReport({ startDate, endDate }) selects: from startDate on
SalesFrom(startDate) ==
    SelectSeq(SalesTable, LAMBDA sale : LocaleCompare(startDate, sale.created_at) <= 0)

\* ---- derived metrics
\* sale.created_at.split("T")[0]
RECURSIVE DateKey(_)
DateKey(s) ==
    IF s = <<>> \/ Head(s) = "T" THEN <<>> ELSE <<Head(s)>> \o DateKey(Tail(s))

\* A reducer that restarts a bucket's total with every sale.
AddSaleOverwriting(acc, sale) ==
    LET date == DateKey(sale.created_at)
        acc1 == IF \E i \in 1..Len(acc) : acc[i].date = date THEN acc
                ELSE Append(acc, [date |-> date, total |-> 0, count |-> 0])
        k == CHOOSE i \in 1..Len(acc1) : acc1[i].date = date
    IN  [acc1 EXCEPT ![k].total = sale.amount, ![k].count = @ + 1]

\* The reducer of dailySalesData; the accumulator's keys in insertion order.
AddSale(acc, sale) ==
    LET date == DateKey(sale.created_at)
        acc1 == IF \E i \in 1..Len(acc) : acc[i].date = date THEN acc
                ELSE Append(acc, [date |-> date, total |-> 0, count |-> 0])
        k == CHOOSE i \in 1..Len(acc1) : acc1[i].date = date
    IN  [acc1 EXCEPT ![k].total = @ + sale.amount, ![k].count = @ + 1]

RECURSIVE SalesByDate(_, _)
SalesByDate(acc, sales) ==
    IF sales = <<>> THEN acc
    ELSE SalesByDate(AddSale(acc, Head(sales)), Tail(sales))

\* Array.prototype.sort with (a, b) => a.date.localeCompare(b.date): stable
RECURSIVE InsertByDate(_, _)
InsertByDate(sorted, b) ==
    IF sorted = <<>> THEN <<b>>
    ELSE IF LocaleCompare(b.date, Head(sorted).date) < 0 THEN <<b>> \o sorted
    ELSE <<Head(sorted)>> \o InsertByDate(Tail(sorted), b)

RECURSIVE SortByDate(_)
SortByDate(buckets) ==
    IF buckets = <<>> THEN <<>>
    ELSE InsertByDate(SortByDate(SubSeq(buckets, 1, Len(buckets) - 1)),
                      buckets[Len(buckets)])

DailySalesData(recentSales) == SortByDate(SalesByDate(<<>>, recentSales))

\* ---- component state
InitDash ==
    [retailers |-> <<>>, agents |-> <<>>, todaySales |-> <<>>,
     recentSales |-> <<>>, earningsSummary |-> <<>>, inventoryReport |-> <<>>,
     platformCommission |-> 0, isDataLoading |-> TRUE, error |-> None]

\* const { isLoading: isAuthLoading } = useRequireRole("admin")
IsAuthLoading == guard # "authorized"

IdleLoad ==
    [pc |-> "idle", call |-> IdleCall, log |-> <<>>,
     retailersData |-> None, agentsData |-> None, todaySalesData |-> None,
     recentSalesData |-> None, earningsData |-> None]

\* ---- loadDashboardData
\* data || []
OrEmpty(data) == IF data = None THEN <<>> ELSE The(data)

\* earningsData?.reduce((sum, item) => sum + item.platform_commission, 0) || 0
RECURSIVE Commission(_)
Commission(data) ==
    IF data = None \/ The(data) = <<>> THEN 0
    ELSE Head(The(data)).platform_commission + Commission(Some(Tail(The(data))))

\* The log keeps of a fetch how it ended, once it has.
Answered(log, call) ==
    [log EXCEPT ![Len(log)] =
        [@ EXCEPT !.ended = TRUE,
                  !.error = IF call.pc = "done" THEN call.result.error ELSE None,
                  !.thrown = IF call.pc = "rejected" THEN call.thrown ELSE None]]

\* The load issues its next fetch.
Fetching(d, l, pc, fetch, call) ==
    [dash |-> d,
     load |-> [l EXCEPT !.pc = pc, !.call = call,
                        !.log = Append(@, [fetch |-> fetch, ended |-> FALSE,
                                           error |-> None, thrown |-> None])]]

\* catch + finally of loadDashboardData; the locals go with the frame.
DashFailed(d, l, msg) ==
    [dash |-> [d EXCEPT !.error = Some(msg), !.isDataLoading = FALSE],
     load |-> [IdleLoad EXCEPT !.pc = "done", !.log = l.log]]

\* A load that takes no notice of the error a fetch returns.
AfterFetchUnchecked(d, l, call, label, next) ==
    IF call.pc = "rejected" THEN DashFailed(d, l, MessageOf(call.thrown))
    ELSE next

\* After each await: a rejection lands in catch as it is; a returned error
\* is thrown as `${label}: ${error.message}`; otherwise the load goes on.
AfterFetch(d, l, call, label, next) ==
    IF call.pc = "rejected" THEN DashFailed(d, l, MessageOf(call.thrown))
    ELSE IF call.result.error # None
    THEN DashFailed(d, l, <<label, The(call.result.error)>>)
    ELSE next

DashAfterRetailers(d, l, call) ==
    AfterFetch(d, l, call, "Error fetching retailers",
               Fetching(d, [l EXCEPT !.retailersData = call.result.data],
                        "agents", "agents", IdleCall))

DashAfterAgents(d, l, call) ==
    AfterFetch(d, l, call, "Error fetching agents",
               Fetching(d, [l EXCEPT !.agentsData = call.result.data],
                        "todaySales", "today's sales", StartFetchReport("fetchSalesReport")))

DashAfterTodaySales(d, l, call) ==
    AfterFetch(d, l, call, "Error fetching today's sales",
               Fetching(d, [l EXCEPT !.todaySalesData = call.result.data],
                        "recentSales", "recent sales", StartFetchReport("fetchSalesReport")))

DashAfterRecentSales(d, l, call) ==
    AfterFetch(d, l, call, "Error fetching recent sales",
               Fetching(d, [l EXCEPT !.recentSalesData = call.result.data],
                        "earnings", "earnings", StartFetchReport("fetchEarningsSummary")))

DashAfterEarnings(d, l, call) ==
    AfterFetch(d, l, call, "Error fetching earnings",
               Fetching(d, [l EXCEPT !.earningsData = call.result.data],
                        "inventory", "inventory", StartFetchReport("fetchInventoryReport")))

DashAfterInventory(d, l, call) ==
    AfterFetch(d, l, call, "Error fetching inventory",
               [dash |-> [d EXCEPT !.retailers = OrEmpty(l.retailersData),
                                   !.agents = OrEmpty(l.agentsData),
                                   !.todaySales = OrEmpty(l.todaySalesData),
                                   !.recentSales = OrEmpty(l.recentSalesData),
                                   !.earningsSummary = OrEmpty(l.earningsData),
                                   !.inventoryReport = OrEmpty(call.result.data),
                                   !.platformCommission = Commission(l.earningsData),
                                   !.isDataLoading = FALSE],
                load |-> [IdleLoad EXCEPT !.pc = "done", !.log = l.log]])

\* ---- steps
\* The guard finishes its check of the session's role.
GuardResolves ==
    /\ guard = "pending"
    /\ guard' \in {"authorized", "denied"}
    /\ UNCHANGED <<dash, load, memo>>

\* The effect without its condition on the guard: the load starts at once.
LoadDashboardDataUnguarded ==
    /\ load.pc = "idle"
    /\ LET next == Fetching([dash EXCEPT !.isDataLoading = TRUE], IdleLoad,
                            "retailers", "retailers", StartFetchReport("fetchRetailers"))
       IN  dash' = next.dash /\ load' = next.load
    /\ UNCHANGED <<guard, memo>>

\* The effect on [isAuthLoading], once the guard has let the user in.
LoadDashboardData ==
    /\ ~IsAuthLoading /\ load.pc = "idle"
    /\ LET next == Fetching([dash EXCEPT !.isDataLoading = TRUE], IdleLoad,
                            "retailers", "retailers", StartFetchReport("fetchRetailers"))
       IN  dash' = next.dash /\ load' = next.load
    /\ UNCHANGED <<guard, memo>>

\* A response to the load's pending call; the load resumes with it in the
\* same turn of the event loop and runs to its next await or to its end.
DashResume(pc, call) ==
    /\ load.pc = pc
    /\ LET l == [load EXCEPT !.log = Answered(@, call)]
           next == CASE pc = "retailers" -> DashAfterRetailers(dash, l, call)
                     [] pc = "agents" -> DashAfterAgents(dash, l, call)
                     [] pc = "todaySales" -> DashAfterTodaySales(dash, l, call)
                     [] pc = "recentSales" -> DashAfterRecentSales(dash, l, call)
                     [] pc = "earnings" -> DashAfterEarnings(dash, l, call)
                     [] pc = "inventory" -> DashAfterInventory(dash, l, call)
       IN  /\ dash' = next.dash
           /\ load' = next.load
    /\ UNCHANGED <<guard, memo>>

DashRetailers ==
    /\ \E o \in Outcomes :
          DashResume("retailers", FetchAfterQuery(load.call, DbSelectReport(RetailerTable, o)))
    /\ fa' = IF load'.pc = "agents" THEN [IdleFetchAgents EXCEPT !.pc = "roster"] ELSE fa
    /\ UNCHANGED <<authUsers, nextUserId, profiles, retailerAgent, ca>>

\* fetchAgents has returned to the load.
DashAgents ==
    /\ fa.pc = "done"
    /\ DashResume("agents",
                  [IdleCall EXCEPT !.fn = "fetchAgents", !.pc = "done",
                                   !.result = fa.result])
    /\ fa' = IdleFetchAgents
    /\ UNCHANGED <<authUsers, nextUserId, profiles, retailerAgent, ca>>

\* The clock's today is day "10"; thirty days ago was day "00".
DashTodaySales ==
    \E o \in Outcomes :
        DashResume("todaySales",
                   FetchAfterQuery(load.call, DbSelectReport(SalesFrom(<<"1", "0">>), o)))

DashRecentSales ==
    \E o \in Outcomes :
        DashResume("recentSales",
                   FetchAfterQuery(load.call, DbSelectReport(SalesFrom(<<"0", "0">>), o)))

DashEarnings ==
    \E o \in Outcomes :
        DashResume("earnings", FetchAfterQuery(load.call, DbSelectReport(EarningsTable, o)))

DashInventory ==
    \E o \in Outcomes :
        DashResume("inventory", FetchAfterQuery(load.call, DbSelectReport(
                                       <<[voucher_type |-> "Mobile", available |-> 4]>>, o)))

\* A render past the loading and error returns computes the chart's data.
RenderDailySales ==
    /\ ~IsAuthLoading /\ ~dash.isDataLoading /\ dash.error = None
    /\ memo' = Some(DailySalesData(dash.recentSales))
    /\ memo' # memo
    /\ UNCHANGED <<guard, dash, load>>

DashIdle ==
    /\ guard = "pending"
    /\ dash = InitDash
    /\ load = IdleLoad
    /\ memo = None

\* ========================================================== specifications
vars == <<termVars, agentVars, detailVars, dashVars>>

\* Backends at rest, for the specifications that leave a part alone.
TermIdle ==
    /\ dbTerminals = {}
    /\ nextId = 1
    /\ calls = [c \in Callers |-> IdleCall]
    /\ hist = [t \in TerminalIds |-> <<>>]

AgentIdle ==
    /\ authUsers = {}
    /\ nextUserId = 1
    /\ profiles = {}
    /\ retailerAgent = [r \in Retailers |-> 0]
    /\ fa = IdleFetchAgents
    /\ ca = IdleCreateAgent

\* The terminal data-access functions under callers of any kind.
InitTerminal == TermInit /\ AgentIdle /\ DetailIdle /\ DashIdle

NextTerminal ==
    \E c \in Callers :
        \/ FetchTerminalsQuery(c) /\ UNCHANGED <<agentVars, detailVars, dashVars>>
        \/ CreateTerminalInsert(c) /\ UNCHANGED <<agentVars, detailVars, dashVars>>
        \/ ToggleRead(c) /\ UNCHANGED <<agentVars, detailVars, dashVars>>
        \/ ToggleWrite(c) /\ UNCHANGED <<agentVars, detailVars, dashVars>>
        \/ DeleteTerminalDelete(c) /\ UNCHANGED <<agentVars, detailVars, dashVars>>
        \/ CallFetchTerminals(c) /\ UNCHANGED <<agentVars, detailVars, dashVars>>
        \/ CallCreateTerminal(c) /\ UNCHANGED <<agentVars, detailVars, dashVars>>
        \/ CallToggleTerminalStatus(c) /\ UNCHANGED <<agentVars, detailVars, dashVars>>
        \/ CallDeleteTerminal(c) /\ UNCHANGED <<agentVars, detailVars, dashVars>>
        \/ CallReturn(c) /\ UNCHANGED <<agentVars, detailVars, dashVars>>

SpecTerminal == InitTerminal /\ [][NextTerminal]_vars

\* The agent data-access functions under callers of any kind.
InitAgents == AgentInit /\ TermIdle /\ DetailIdle /\ DashIdle

NextAgents ==
    \/ FetchAgentsRoster /\ UNCHANGED <<termVars, detailVars, dashVars>>
    \/ FetchAgentsCount /\ UNCHANGED <<termVars, detailVars, dashVars>>
    \/ FetchAgentsAll /\ UNCHANGED <<termVars, detailVars, dashVars>>
    \/ CreateAgentSignUp /\ UNCHANGED <<termVars, detailVars, dashVars>>
    \/ CreateAgentInsert /\ UNCHANGED <<termVars, detailVars, dashVars>>
    \/ CallFetchAgents /\ UNCHANGED <<termVars, detailVars, dashVars>>
    \/ ReturnFetchAgents /\ UNCHANGED <<termVars, detailVars, dashVars>>
    \/ CallCreateAgent /\ UNCHANGED <<termVars, detailVars, dashVars>>
    \/ ReturnCreateAgent /\ UNCHANGED <<termVars, detailVars, dashVars>>

SpecAgents == InitAgents /\ [][NextAgents]_vars

\* The retailer-detail view over the terminal data-access functions.
InitDetail ==
    TermInit /\ dbTerminals \in {{}, {TerminalRow(1, "r1", <<"a">>, "active")}} /\ AgentIdle /\ DetailIdle /\ DashIdle

NextDetail ==
    \/ Mount
          /\ answer' = None /\ UNCHANGED <<agentVars, dashVars, navs>>
    \/ HandleToggleTerminalStatus
          /\ answer' = None /\ UNCHANGED <<agentVars, dashVars, navs>>
    \/ HandleDeleteTerminal
          /\ answer' = None /\ UNCHANGED <<agentVars, dashVars, navs>>
    \/ HandleTerminalSubmit
          /\ answer' = None /\ UNCHANGED <<agentVars, dashVars, navs>>
    \/ HandleTerminalInputChange
          /\ answer' = None /\ UNCHANGED <<agentVars, dashVars, navs>>
    \/ OpenAddTerminalModal
          /\ answer' = None /\ UNCHANGED <<agentVars, dashVars, navs>>
    \/ CloseAddTerminalModal
          /\ answer' = None /\ UNCHANGED <<agentVars, dashVars, navs>>
    \/ ToggleTerminalMenu
          /\ answer' = None /\ UNCHANGED <<agentVars, dashVars, navs>>
    \/ AskDeleteTerminal
          /\ answer' = None /\ UNCHANGED <<agentVars, dashVars, navs>>
    \/ CancelDeleteTerminal
          /\ answer' = None /\ UNCHANGED <<agentVars, dashVars, navs>>
    \/ CloseDeleteModal
          /\ answer' = None /\ UNCHANGED <<agentVars, dashVars, navs>>
    \/ \E c \in Callers :
          \/ Resume(c, "load", "retailers")
                /\ UNCHANGED <<agentVars, dashVars, navs>>
          \/ Resume(c, "load", "terminals")
                /\ UNCHANGED <<agentVars, dashVars, navs>>
          \/ Resume(c, "load", "sales")
                /\ UNCHANGED <<agentVars, dashVars, navs>>
          \/ Resume(c, "toggle", "mutate")
                /\ UNCHANGED <<agentVars, dashVars, navs>>
          \/ Resume(c, "toggle", "refetch")
                /\ UNCHANGED <<agentVars, dashVars, navs>>
          \/ Resume(c, "delete", "mutate")
                /\ UNCHANGED <<agentVars, dashVars, navs>>
          \/ Resume(c, "delete", "refetch")
                /\ UNCHANGED <<agentVars, dashVars, navs>>
          \/ Resume(c, "submit", "mutate")
                /\ UNCHANGED <<agentVars, dashVars, navs>>
          \/ Resume(c, "submit", "refetch")
                /\ UNCHANGED <<agentVars, dashVars, navs>>

SpecDetail == InitDetail /\ [][NextDetail]_vars

\* The view where every backend request is answered in the end: each slot's
\* outstanding call keeps being answered until its handler is over.
SpecDetailLive ==
    SpecDetail /\ \A c \in Callers :
        WF_vars(\E kind \in {"load", "toggle", "delete", "submit"},
                   pc \in {"retailers", "terminals", "sales", "mutate", "refetch"} :
                    Resume(c, kind, pc) /\ UNCHANGED <<agentVars, dashVars, navs>>)

\* Load cycles alone, with the route's id changing under the mounted view.
NextReload ==
    \/ Mount
          /\ answer' = None /\ UNCHANGED <<agentVars, dashVars, navs>>
    \/ RouteChange
          /\ answer' = None /\ UNCHANGED <<agentVars, dashVars>>
    \/ \E c \in Callers :
          \/ Resume(c, "load", "retailers")
                /\ UNCHANGED <<agentVars, dashVars, navs>>
          \/ Resume(c, "load", "terminals")
                /\ UNCHANGED <<agentVars, dashVars, navs>>
          \/ Resume(c, "load", "sales")
                /\ UNCHANGED <<agentVars, dashVars, navs>>

SpecReload == InitDetail /\ [][NextReload]_vars

\* The admin dashboard over fetchAgents and the report functions.
InitDashboard == AgentInit /\ TermIdle /\ DetailIdle /\ DashIdle

NextDashboard ==
    \/ GuardResolves /\ UNCHANGED <<termVars, agentVars, detailVars>>
    \/ LoadDashboardData /\ UNCHANGED <<termVars, agentVars, detailVars>>
    \/ DashRetailers /\ UNCHANGED <<termVars, detailVars>>
    \/ FetchAgentsRoster /\ UNCHANGED <<termVars, detailVars, dashVars>>
    \/ FetchAgentsCount /\ UNCHANGED <<termVars, detailVars, dashVars>>
    \/ FetchAgentsAll /\ UNCHANGED <<termVars, detailVars, dashVars>>
    \/ DashAgents /\ UNCHANGED <<termVars, detailVars>>
    \/ DashTodaySales /\ UNCHANGED <<termVars, agentVars, detailVars>>
    \/ DashRecentSales /\ UNCHANGED <<termVars, agentVars, detailVars>>
    \/ DashEarnings /\ UNCHANGED <<termVars, agentVars, detailVars>>
    \/ DashInventory /\ UNCHANGED <<termVars, agentVars, detailVars>>
    \/ RenderDailySales /\ UNCHANGED <<termVars, agentVars, detailVars>>

SpecDashboard == InitDashboard /\ [][NextDashboard]_vars

\* The chart's grouping on a dashboard that has loaded: any recent sales of
\* the bounds, the other collections empty.
InitChart ==
    /\ TermIdle /\ AgentIdle /\ DetailIdle
    /\ guard = "authorized"
    /\ \E sales \in SeqsUpTo({[retailer_name |-> "Acme", amount |-> a,
                                 created_at |-> <<d1, d2, "T", t>>] :
                                   a \in {1, 2}, d1 \in {"0", "1"},
                                   d2 \in {"0", "1"}, t \in {"0", "1"}},
                               MaxSales) :
          dash = [InitDash EXCEPT !.recentSales = sales, !.isDataLoading = FALSE]
    /\ load = [IdleLoad EXCEPT !.pc = "done"]
    /\ memo = None

NextChart == RenderDailySales /\ UNCHANGED <<termVars, agentVars, detailVars>>

SpecChart == InitChart /\ [][NextChart]_vars

\* ================================================================== claims
ToggleCalls == {c \in Callers : calls[c].fn = "toggle"}

\* C1: a successful toggle that no other write disturbed leaves the other of
\* the two statuses, and two such toggles in a row leave the status the
\* terminal had before the first; the stored status is the one last written.
C1_ToggleTwiceRestores ==
    \A t \in TerminalIds :
        /\ HasRow(t) => hist[t] # <<>> /\ RowOf(t).status = hist[t][Len(hist[t])]
        /\ \A i \in 1..Len(hist[t]) : hist[t][i] \in Statuses
        /\ Len(hist[t]) >= 2 => hist[t][2] # hist[t][1]
        /\ Len(hist[t]) >= 3 => hist[t][3] = hist[t][1]

\* Two undisturbed successful toggles of one terminal have completed.
C1_Witness == \E t \in TerminalIds : Len(hist[t]) = 3 /\ HasRow(t)

\* C2 (state part): a toggle whose read came back with an error has issued
\* no write and has returned that error with no data; a toggle whose write
\* came back with an error has returned that error with no data.
C2_ToggleErrorResults ==
    \A c \in ToggleCalls :
        LET call == calls[c] IN
        /\ Len(call.ops) >= 1 /\ call.ops[1].error # None =>
               /\ call.pc = "done"
               /\ Len(call.ops) = 1
               /\ call.result = [data |-> None, error |-> call.ops[1].error]
        /\ Len(call.ops) = 2 /\ call.ops[2].error # None =>
               /\ call.pc = "done"
               /\ call.result = [data |-> None, error |-> call.ops[2].error]

\* C2 (step part): the step in which a toggle's read comes back with an
\* error changes nothing in the terminals table.
C2_FailedReadWritesNothing ==
    \A c \in Callers :
        (/\ calls[c].fn = "toggle" /\ calls[c].pc = "read"
         /\ calls'[c].pc = "done")
        => dbTerminals' = dbTerminals

\* C2: both parts, in every reachable state and step.
C2_ToggleFailure == [](C2_ToggleErrorResults) /\ [][C2_FailedReadWritesNothing]_vars

\* A toggle has returned after a failed read while the terminal exists, and
\* another after a failed write.
C2_Witness ==
    \E c \in ToggleCalls :
        /\ calls[c].pc = "done" /\ calls[c].result.error = Some("e1")
        /\ HasRow(calls[c].tid)
        /\ Len(calls[c].ops) = 2

RosterServed ==
    /\ fa.rosterOp # None
    /\ The(fa.rosterOp).error = None /\ The(fa.rosterOp).thrown = None

RetailersOf(a) == {r \in Retailers : retailerAgent[r] = a}

\* C3: when the roster query was served and every count query came back (with
\* a count or with an error), fetchAgents returns success with every agent of
\* the roster, in roster order; an agent whose count query came back with an
\* error has retailer_count 0, every other agent the backend's count.
C3_FetchAgentsSoftFailsCounts ==
    (fa.pc = "done" /\ RosterServed /\ fa.thrown = None) =>
        /\ fa.result.error = None
        /\ fa.result.data # None
        /\ LET data == The(fa.result.data)
           IN  /\ Len(data) = Len(fa.roster)
               /\ \A i \in 1..Len(data) :
                     /\ data[i].id = fa.roster[i].id
                     /\ data[i].retailer_count =
                           IF fa.countError[i] # None THEN 0
                           ELSE Cardinality(RetailersOf(fa.roster[i].id))

\* fetchAgents has returned a roster of three agents of which one count query
\* failed and another counted at least one retailer.
C3_Witness ==
    /\ fa.pc = "done" /\ RosterServed /\ fa.thrown = None
    /\ Len(fa.roster) = 3
    /\ \E i, j \in 1..Len(fa.roster) :
          /\ fa.countError[i] # None
          /\ RetailersOf(fa.roster[i].id) # {}
          /\ fa.countError[j] = None
          /\ The(fa.result.data)[j].retailer_count > 0

\* C4: when the roster query comes back with an error, fetchAgents returns
\* that error with data null and has issued no count query.
C4_FetchAgentsHardFailsRoster ==
    (fa.pc = "done" /\ fa.rosterOp # None /\ The(fa.rosterOp).error # None) =>
        /\ fa.result = [data |-> None, error |-> The(fa.rosterOp).error]
        /\ fa.issued = {}
        /\ fa.pending = {}

\* fetchAgents has returned after a failed roster query while agents exist.
C4_Witness ==
    /\ fa.pc = "done" /\ fa.rosterOp # None /\ The(fa.rosterOp).error # None
    /\ Cardinality(profiles) >= 2

\* C5: the profile insert is issued only once the sign-up has been served
\* with a new user, whose identity record exists; a createAgent whose sign-up
\* came back with an error or with no user has issued no insert and returns
\* an error with no data; a profile only ever links to an identity record.
C5_ProfileOnlyAfterIdentity ==
    LET signUp == ca.ops[1]
        signedUp == /\ signUp.op = "signUp"
                    /\ signUp.error = None /\ signUp.thrown = None
                    /\ ca.user # None
    IN  /\ (ca.pc = "insert" \/ Len(ca.ops) >= 2) =>
               /\ signedUp
               /\ The(ca.user).id \in authUsers
               /\ Len(ca.ops) = 2 => ca.ops[2].op = "insert"
        /\ (ca.pc = "done" /\ (signUp.error # None \/ (signUp.thrown = None /\ ca.user = None))) =>
               /\ Len(ca.ops) = 1
               /\ ca.result.data = None
               /\ ca.result.error # None
        /\ \A row \in profiles : row.id \in authUsers

\* createAgent has returned after a sign-up that gave no user, and a profile
\* exists that an earlier createAgent inserted.
C5_Witness ==
    /\ ca.pc = "done" /\ Len(ca.ops) = 1
    /\ ca.ops[1].error = None /\ ca.ops[1].thrown = None /\ ca.user = None
    /\ \E row \in profiles : row.phone = Some("p1")

\* C6: when the sign-up created a user and the profile insert then came back
\* with an error, createAgent returns that error with no data, and the
\* identity record is still there with no profile linked to it: nothing was
\* issued after the insert.
C6_NoCompensation ==
    (ca.pc = "done" /\ Len(ca.ops) = 2 /\ ca.ops[2].error # None) =>
        /\ ca.result = [data |-> None, error |-> ca.ops[2].error]
        /\ The(ca.user).id \in authUsers
        /\ \A row \in profiles : row.id # The(ca.user).id
        /\ ca.ops[1].op = "signUp" /\ ca.ops[2].op = "insert"

\* createAgent has returned the profile error after creating an identity.
C6_Witness ==
    /\ ca.pc = "done" /\ Len(ca.ops) = 2 /\ ca.ops[2].error = Some("e1")
    /\ ca.user # None

\* A name with nothing in it but spaces, the empty name among them.
Blank(name) == \A i \in 1..Len(name) : name[i] = " "

\* C7: submitting the add-terminal form with an empty name starts no
\* handler and no backend call (no createTerminal, no refetch), touches no
\* table, sets the form's validation message and changes nothing else of the
\* view: the modal stays open and the terminal list is the one shown before.
C7_EmptyNameSubmitStopsAtValidation ==
    [][(HandleTerminalSubmit /\ Blank(view.terminalFormData.name)) =>
          /\ calls' = calls
          /\ tasks' = tasks
          /\ dbTerminals' = dbTerminals
          /\ view' = [view EXCEPT !.terminalFormError = Some(<<"Terminal name is required">>)]
          /\ view'.showAddTerminalModal
          /\ view'.terminals = view.terminals]_vars

\* The form was submitted with the empty name over a list that shows a
\* terminal: the message is up, the modal open, nothing in flight.
C7_Witness ==
    /\ view.terminalFormError = Some(<<"Terminal name is required">>)
    /\ view.terminalFormData.name = <<>>
    /\ view.showAddTerminalModal
    /\ view.terminals # <<>>
    /\ \A c \in Callers : tasks[c].kind = "none" /\ calls[c].pc = "idle"

\* C8: when a delete handler whose deleteTerminal succeeded (it went on to the
\* refetch) finishes, the delete modal is closed, the selected terminal is
\* cleared and the list shown holds no terminal with the deleted id.
C8_DeleteSuccessClosesAndRemoves ==
    [][\A c \in Callers :
          (tasks[c].kind = "delete" /\ tasks[c].pc = "refetch"
              /\ tasks'[c].kind = "none") =>
             /\ ~view'.showDeleteModal
             /\ view'.terminalToDelete = None
             /\ \A i \in 1..Len(view'.terminals) :
                   view'.terminals[i].id # tasks[c].tid]_vars

\* The numeral a date key of digits writes.
RECURSIVE KeyValue(_)
KeyValue(key) ==
    IF key = <<>> THEN 0
    ELSE 10 * KeyValue(SubSeq(key, 1, Len(key) - 1))
         + (IF key[Len(key)] = "1" THEN 1 ELSE 0)

RECURSIVE SumOf(_)
SumOf(numbers) ==
    IF numbers = <<>> THEN 0 ELSE Head(numbers) + SumOf(Tail(numbers))

\* C9: the date grouping of any sales collection gives buckets whose counts
\* sum to the number of sales and whose totals sum to the sum of the amounts,
\* each bucket keyed by the part of created_at before "T" of the sales it
\* counts, in ascending order of the date key; no sales give no bucket.
C9_DailySalesDataConserves ==
    memo # None =>
        LET sales == dash.recentSales
            out == The(memo)
        IN  /\ SumOf([i \in 1..Len(out) |-> out[i].count]) = Len(sales)
            /\ SumOf([i \in 1..Len(out) |-> out[i].total])
                  = SumOf([k \in 1..Len(sales) |-> sales[k].amount])
            /\ \A i \in 1..Len(out) :
                  out[i].count = Cardinality(
                     {k \in 1..Len(sales) :
                         SubSeq(sales[k].created_at, 1, 2) = out[i].date})
            /\ \A i, j \in 1..Len(out) :
                  i < j => KeyValue(out[i].date) < KeyValue(out[j].date)
            /\ (sales = <<>> => out = <<>>)

\* Three sales on two dates, the later date first, have been grouped.
C9_Witness ==
    /\ memo # None
    /\ Len(dash.recentSales) = 3
    /\ Len(The(memo)) = 2
    /\ KeyValue(DateKey(dash.recentSales[1].created_at))
          > KeyValue(DateKey(dash.recentSales[3].created_at))

\* The fetches of a dashboard load in the order the load issues them.
FetchOrder ==
    <<"retailers", "agents", "today's sales", "recent sales", "earnings",
      "inventory">>

\* C10: the fetches of a dashboard load are issued in order, each after the
\* one before it has returned; once a fetch has returned an error the load is
\* over with no further fetch issued, the message shown is that fetch's, the
\* collections and the platform commission are at their empty defaults and
\* the loading flag is down with the error up.
C10_FirstErrorAbortsLoad ==
    /\ Len(load.log) <= Len(FetchOrder)
    /\ \A i \in 1..Len(load.log) :
          /\ load.log[i].fetch = FetchOrder[i]
          /\ i < Len(load.log) =>
                load.log[i].ended /\ load.log[i].error = None
                   /\ load.log[i].thrown = None
          /\ load.log[i].error # None =>
                /\ load.pc = "done"
                /\ dash.error = Some(<<"Error fetching " \o load.log[i].fetch,
                                       The(load.log[i].error)>>)
                /\ ~dash.isDataLoading
                /\ dash.retailers = <<>> /\ dash.agents = <<>>
                /\ dash.todaySales = <<>> /\ dash.recentSales = <<>>
                /\ dash.earningsSummary = <<>> /\ dash.inventoryReport = <<>>
                /\ dash.platformCommission = 0

\* The fourth fetch of a load, the recent sales, has returned an error after
\* three fetches that succeeded.
C10_Witness ==
    /\ Len(load.log) = 4
    /\ load.log[4].error # None
    /\ load.pc = "done"
    /\ dash.error # None

\* C11: while the role guard has not admitted the user as admin (its check
\* is pending, or it has turned the user away) the dashboard's load has not
\* started: no fetch has been issued or answered, none is outstanding, the
\* agents fetch is idle and the component is in the state it was built in.
\* So a load that has started has started after the guard admitted the user.
C11_NoFetchBeforeAdmitted ==
    guard # "authorized" =>
        /\ load = IdleLoad
        /\ fa = IdleFetchAgents
        /\ dash = InitDash

\* The guard has admitted the user and the load's first fetch is outstanding.
C11_Witness ==
    /\ guard = "authorized"
    /\ load.pc = "retailers"
    /\ Len(load.log) = 1 /\ ~load.log[1].ended

\* C12: when fetchRetailers returns an error to a load cycle, the step that
\* delivers it ends the cycle: the error message is "Failed to load retailer"
\* with the returned error's message, the loading flag is down, and the cycle
\* has no call outstanding, so neither its terminals fetch nor its sales fetch
\* is issued. While that message is up nothing of the view runs and no
\* retailer, terminal or sale is held.
C12_LookupErrorIsFatal ==
    /\ \A a \in answer :
          a.kind = "load" /\ a.pc = "retailers" /\ a.error # None =>
             /\ view.error = Some(<<"Failed to load retailer", The(a.error)>>)
             /\ ~view.isLoading
             /\ tasks[a.slot] = IdleTask /\ calls[a.slot] = IdleCall
    /\ \A e \in BackendErrors :
          view.error = Some(<<"Failed to load retailer", e>>) =>
             /\ ~view.isLoading /\ ~Rendered
             /\ \A c \in Callers : tasks[c] = IdleTask /\ calls[c] = IdleCall
             /\ view.retailer = None /\ view.terminals = <<>> /\ view.sales = <<>>

\* fetchRetailers has just returned an error to the load cycle.
C12_Witness ==
    /\ \E a \in answer :
          a.kind = "load" /\ a.fn = "fetchRetailers" /\ a.error \in {{e} : e \in BackendErrors}
    /\ view.error # None

\* C13 (step): the step that delivers a returned error of the terminals fetch
\* or of the sales fetch to a load cycle sets no error; after a failed
\* terminals fetch the sales fetch is issued and the terminals shown are
\* empty; after a failed sales fetch the cycle is over with the loading flag
\* down and the sales shown are empty.
C13_SoftFailureStep ==
    \A a \in answer' :
        a.kind = "load" /\ a.ended /\ a.error # None =>
           /\ a.pc = "terminals" =>
                 /\ view'.error = view.error
                 /\ tasks'[a.slot].pc = "sales"
                 /\ calls'[a.slot].fn = "fetchSalesReport"
                 /\ view'.terminals = <<>>
           /\ a.pc = "sales" =>
                 /\ view'.error = view.error
                 /\ ~view'.isLoading
                 /\ tasks'[a.slot] = IdleTask
                 /\ view'.sales = <<>>

\* C13: in every load cycle, the first and those an id change starts, a
\* failed terminals or sales fetch is not fatal and its collection is shown
\* empty.
C13_SoftFailureShowsEmpty == [][C13_SoftFailureStep]_vars

\* C14: every call of fetchTerminals, createTerminal, toggleTerminalStatus
\* and deleteTerminal that has ended, on whatever path, has returned a result
\* with exactly one of data and error populated.
C14_UniformResult ==
    \A c \in Callers :
        calls[c].pc \in {"done", "rejected"} =>
           /\ calls[c].pc = "done"
           /\ (calls[c].result.data = None) # (calls[c].result.error = None)

\* C15 (state part): every stored terminal is the only row of its id,
\* references one of the retailers and has status active or inactive.
C15_StoredTerminalsWellFormed ==
    \A row \in dbTerminals :
        /\ row.retailer_id \in Retailers
        /\ row.status \in Statuses
        /\ \A other \in dbTerminals : other.id = row.id => other = row

\* C15 (step part): no step changes the retailer a stored terminal
\* references; a terminal that a step adds is added by a create call, with
\* the retailer that call was given and with status active.
C15_RetailerKeptCreatedActive ==
    \A row \in dbTerminals' :
        IF \E old \in dbTerminals : old.id = row.id
        THEN \A old \in dbTerminals :
                old.id = row.id => row.retailer_id = old.retailer_id
        ELSE /\ row.status = "active"
             /\ \E c \in Callers :
                   /\ calls[c].fn = "create" /\ calls[c].pc = "insert"
                   /\ calls'[c].pc = "done"
                   /\ row.retailer_id = calls[c].rid

\* C15: both parts, in every reachable state and step.
C15_TerminalInvariants ==
    [](C15_StoredTerminalsWellFormed) /\ [][C15_RetailerKeptCreatedActive]_vars

\* A terminal has been created and then toggled: both calls have returned
\* success and the terminal is stored inactive.
C15_Witness ==
    \E c, d \in Callers :
        /\ calls[c].fn = "create" /\ calls[c].pc = "done"
        /\ calls[c].result.error = None
        /\ calls[d].fn = "toggle" /\ calls[d].pc = "done"
        /\ calls[d].result.error = None
        /\ \E row \in dbTerminals :
              {[id |-> row.id]} = calls[c].result.data /\ row.status = "inactive"

\* C16 (step): the write of a toggle stores the status computed from the
\* toggle's own earlier read, whatever is stored by then, and the toggle
\* returns success; when another toggle has meanwhile stored that same
\* status, the write changes nothing in the table.
C16_WriteFollowsOwnRead ==
    \A c \in Callers :
        (/\ calls[c].fn = "toggle" /\ calls[c].pc = "write"
         /\ calls'[c].pc = "done" /\ calls'[c].result.error = None)
        => /\ \E row \in dbTerminals' :
                 row.id = calls[c].tid /\ row.status = NewStatus(calls[c].cur)
           /\ calls'[c].result.data = Some([id |-> calls[c].tid])
           /\ (\E row \in dbTerminals :
                  row.id = calls[c].tid /\ row.status = NewStatus(calls[c].cur))
              => dbTerminals' = dbTerminals

\* C16: toggleTerminalStatus is a read followed by a write with nothing to
\* hold the row between them; two toggles of one terminal can interleave so
\* that both read the same status, both write the same new status and both
\* return success, the terminal flipped once.
C16_ToggleNotAtomic == [][C16_WriteFollowsOwnRead]_vars

\* Two toggles of one terminal have both returned success, both having read
\* the same status, one of them written after the other's write; the status
\* stored is one flip away from the status they read.
C16_Witness ==
    \E c, d \in Callers :
        /\ c # d
        /\ calls[c].fn = "toggle" /\ calls[d].fn = "toggle"
        /\ calls[c].tid = calls[d].tid
        /\ calls[c].pc = "done" /\ calls[c].result.error = None
        /\ calls[d].pc = "done" /\ calls[d].result.error = None
        /\ calls[c].cur = calls[d].cur /\ calls[d].dirty
        /\ HasRow(calls[c].tid)
        /\ RowOf(calls[c].tid).status = NewStatus(calls[c].cur)

\* C17 (step): a response delivered to a load cycle whose id is no longer
\* the route's id is applied like any other: a found retailer becomes the
\* retailer shown, fetched terminals become the terminals shown, a returned
\* lookup error becomes the error shown, and the end of the cycle drops the
\* loading flag.
C17_StaleResponseApplied ==
    \A a \in answer' :
        LET task == tasks[a.slot]
            served == a.error = None /\ a.thrown = None
        IN  a.kind = "load" /\ a.ended /\ view.id # Some(task.id) =>
               /\ a.pc = "retailers" /\ served /\ task.id \in Retailers =>
                     /\ view'.retailer # None
                     /\ The(view'.retailer).id = task.id
               /\ a.pc = "retailers" /\ a.error # None =>
                     view'.error = Some(<<"Failed to load retailer", The(a.error)>>)
               /\ a.pc = "terminals" /\ served =>
                     view'.terminals =
                        MapTerminals(RowsById({row \in dbTerminals :
                                                  row.retailer_id = task.id}))
               /\ tasks'[a.slot] = IdleTask => ~view'.isLoading

\* C17: load cycles are neither cancelled nor tagged; the response of an
\* older cycle that arrives after a newer cycle began is applied, so the view
\* can come to rest, both cycles over, showing the older cycle's data under
\* the newer id.
C17_NoCycleTagging == [][C17_StaleResponseApplied]_vars

\* The id has changed during a load; both cycles are over, and the retailer
\* and the terminals shown are those of the older id, not of the route's id.
C17_Witness ==
    /\ navs = 1
    /\ \A c \in Callers : tasks[c] = IdleTask /\ calls[c] = IdleCall
    /\ ~view.isLoading /\ view.error = None
    /\ view.retailer # None /\ view.id # Some(The(view.retailer).id)
    /\ view.terminals # <<>>
    /\ view.terminals =
          MapTerminals(RowsById({row \in dbTerminals :
                                    row.retailer_id = The(view.retailer).id}))

\* C18: at most one terminal mutation handler (toggle, delete or create) of
\* the view is in flight at any time, so at most one mutation call and its
\* refetch are outstanding.
C18_OneMutationInFlight ==
    Cardinality({c \in Callers : tasks[c].kind \in {"toggle", "delete", "submit"}}) <= 1

\* C19: isProcessingTerminalAction is down again after every time a toggle or
\* delete handler has set it, and isSubmittingTerminal is down again after
\* every time the create handler has set it, however the handler's calls
\* end, provided every backend request is answered: at every point of a run
\* each flag is down now or later.
C19_FlagsEventuallyCleared ==
    /\ []<>(~view.isProcessingTerminalAction)
    /\ []<>(~view.isSubmittingTerminal)

\* A toggle handler has just ended on a rejected refetch, its flag down.
C19_Witness ==
    /\ \E a \in answer :
          /\ a.kind = "toggle" /\ a.pc = "refetch" /\ a.thrown # None
          /\ tasks[a.slot] = IdleTask
    /\ ~view.isProcessingTerminalAction

\* C20 (step): the step that delivers a returned error of toggleTerminalStatus
\* or of deleteTerminal to its handler ends the handler with no refetch
\* issued and leaves the terminals shown as they were; for the delete handler
\* it also leaves the dialog's open flag and the selected terminal as they
\* were.
C20_MutationErrorStep ==
    \A a \in answer' :
        a.kind \in {"toggle", "delete"} /\ a.pc = "mutate" /\ a.error # None =>
           /\ tasks'[a.slot] = IdleTask /\ calls'[a.slot] = IdleCall
           /\ view'.terminals = view.terminals
           /\ a.kind = "delete" =>
                 /\ view'.showDeleteModal = view.showDeleteModal
                 /\ view'.terminalToDelete = view.terminalToDelete

\* C20: a toggle or delete whose mutation call returns an error refetches
\* nothing and changes neither the list nor, for delete, the dialog.
C20_MutationErrorChangesNothing == [][C20_MutationErrorStep]_vars

\* deleteTerminal has just returned an error to the delete handler: the
\* dialog is open with the terminal still selected and still listed.
C20_Witness ==
    /\ \E a \in answer :
          a.kind = "delete" /\ a.pc = "mutate" /\ a.error # None
    /\ view.showDeleteModal
    /\ view.terminalToDelete # None
    /\ The(view.terminalToDelete) \in Shown

\* C21 (state): once the load cycle of a mounted view is over, the view is in
\* exactly one of the states error (a message is up), not-found (no message,
\* no retailer) and ready (no message, a retailer).
C21_OneStateAfterLoad ==
    (view.id # None /\ \A c \in Callers : tasks[c].kind # "load") =>
        /\ ~view.isLoading
        /\ Cardinality({st \in {"error", "not-found", "ready"} :
                           \/ st = "error" /\ view.error # None
                           \/ st = "not-found" /\ view.error = None /\ view.retailer = None
                           \/ st = "ready" /\ view.error = None /\ view.retailer # None}) = 1

\* C21 (step): the step that delivers a successful fetchRetailers holding no
\* retailer of the requested id ends the cycle in the not-found state: no
\* retailer, no error message.
C21_MissingRetailerStep ==
    \A a \in answer' :
        (/\ a.kind = "load" /\ a.pc = "retailers"
         /\ a.error = None /\ a.thrown = None
         /\ tasks[a.slot].id \notin {RetailerTable[i].id : i \in 1..Len(RetailerTable)})
        => /\ tasks'[a.slot] = IdleTask
           /\ ~view'.isLoading
           /\ view'.retailer = None /\ view'.error = None

\* C21: both parts, in every reachable state and step.
C21_MissingRetailerIsNotFound ==
    [](C21_OneStateAfterLoad) /\ [][C21_MissingRetailerStep]_vars

\* C22 (step): the create handler is at its refetch only after createTerminal
\* succeeded; the step that ends the handler there leaves the add-terminal
\* dialog closed, the name field empty, no form error, the submitting flag
\* down and the terminals shown equal to the backend's terminals of the
\* handler's retailer at that time.
C22_CreateSuccessStep ==
    \A a \in answer' :
        a.kind = "submit" /\ a.pc = "refetch" =>
           /\ tasks'[a.slot] = IdleTask
           /\ ~view'.showAddTerminalModal
           /\ view'.terminalFormData = [name |-> <<>>]
           /\ view'.terminalFormError = None
           /\ ~view'.isSubmittingTerminal
           /\ view'.terminals =
                 MapTerminals(RowsById({row \in dbTerminals :
                                           row.retailer_id = tasks[a.slot].id}))

\* C22: every create handler whose createTerminal succeeded finishes with the
\* dialog closed, the form reset and clean, and the list replaced by the
\* backend's.
C22_CreateSuccessClosesAndRefreshes == [][C22_CreateSuccessStep]_vars

\* C23 (step): the step that delivers a failed createTerminal (a returned
\* error or an exception) to the create handler puts up a form error with the
\* failure's message and leaves the dialog's open flag, the entered name and
\* the page error as they were; the step that delivers a failed
\* toggleTerminalStatus or deleteTerminal to its handler changes neither the
\* page error nor the form error.
C23_MutationFailureStep ==
    \A a \in answer' :
        a.pc = "mutate" /\ a.ended /\ (a.error # None \/ a.thrown # None) =>
           /\ a.kind = "submit" =>
                 /\ a.error # None =>
                       view'.terminalFormError =
                          Some(<<"Failed to create terminal", The(a.error)>>)
                 /\ a.thrown # None =>
                       view'.terminalFormError =
                          Some(<<"Error creating terminal", The(a.thrown)>>)
                 /\ view'.showAddTerminalModal = view.showAddTerminalModal
                 /\ view'.terminalFormData = view.terminalFormData
                 /\ view'.error = view.error
           /\ a.kind \in {"toggle", "delete"} =>
                 /\ view'.error = view.error
                 /\ view'.terminalFormError = view.terminalFormError

\* C23: a failed create is shown in the form, a failed toggle or delete is
\* shown nowhere.
C23_AsymmetricSurfacing == [][C23_MutationFailureStep]_vars

\* createTerminal has just returned an error to the create handler: the form
\* error is up, the dialog open and the entered name still in the field.
C23_Witness ==
    /\ \E a \in answer :
          a.kind = "submit" /\ a.pc = "mutate" /\ a.error # None
    /\ view.terminalFormError # None
    /\ view.showAddTerminalModal
    /\ view.terminalFormData.name # <<>>

\* C24 (as stated): fetchAgents has returned only when every count query it
\* issued has come back, and a result it returns lists the agents in roster
\* order, each with the number of retailers that reference it.
C24_FanInAwaitsAll ==
    fa.pc = "done" =>
        /\ fa.pending = {}
        /\ fa.result.data # None =>
              LET data == The(fa.result.data)
              IN  /\ Len(data) = Len(fa.roster)
                  /\ \A i \in 1..Len(data) :
                        /\ data[i].id = fa.roster[i].id
                        /\ data[i].retailer_count =
                              Cardinality(RetailersOf(data[i].id))

\* C24 (amended): the count queries are issued together, one per agent of
\* the roster. fetchAgents returns a list only when every one of them has
\* come back, whatever order they came back in; the list is in roster order
\* and each agent carries its own count: the number of retailers that
\* reference it when its query was served, 0 when its query returned an
\* error. fetchAgents returns with count queries still outstanding only when
\* one of them was rejected, and then it returns that exception as its error.
C24_FanInUnlessRejected ==
    /\ fa.pc = "counts" => fa.issued = 1..Len(fa.roster)
    /\ (fa.pc = "done" /\ fa.result.data # None) =>
          LET data == The(fa.result.data)
          IN  /\ fa.pending = {}
              /\ Len(data) = Len(fa.roster)
              /\ \A i \in 1..Len(data) :
                    /\ data[i].id = fa.roster[i].id
                    /\ data[i].retailer_count =
                          IF fa.countError[i] # None THEN 0
                          ELSE Cardinality(RetailersOf(data[i].id))
    /\ (fa.pc = "done" /\ fa.pending # {}) =>
          /\ fa.thrown # None
          /\ fa.result = Caught(fa.thrown)

\* fetchAgents has returned a list of three agents whose count queries came
\* back out of roster order, all served, two agents with different counts.
C24_Witness ==
    /\ fa.pc = "done" /\ fa.result.data # None
    /\ Len(fa.roster) = 3
    /\ fa.outOfOrder
    /\ \A i \in 1..3 : fa.countError[i] = None
    /\ \E i, j \in 1..3 :
          The(fa.result.data)[i].retailer_count # The(fa.result.data)[j].retailer_count

====
